---- MODULE Spec2Model ----
(***************************************************************************)
(* EcoAdvisor (app.py): one Streamlit script run.  main() configures the   *)
(* Gemini API from the process environment, offers the upload widget and   *)
(* the analyse button, calls the provider, and hands the returned text to  *)
(* display_analysis_results, which normalises escaped newlines, splits the *)
(* text into lines and re-segments it into labelled sections.              *)
(*                                                                         *)
(* Text is modelled as a sequence of one-character strings, so replace,    *)
(* split, strip and startswith are computed character by character.        *)
(***************************************************************************)
EXTENDS Integers, Sequences, FiniteSets, TLC

\* ------------------------------------------------------------------------
\* Bounds of the input space
\* ------------------------------------------------------------------------
MaxTok == 5         \* tokens per provider text built from Palette
MaxLines == 3       \* lines per provider text built from LinePalette

\* ------------------------------------------------------------------------
\* Characters
\* ------------------------------------------------------------------------
NL == "\n"          \* a real line break
BS == "\\"          \* one backslash character
SP == " "

Whitespace == {SP, NL, "\t", "\r"}

\* ------------------------------------------------------------------------
\* Python str primitives used by app.py
\* ------------------------------------------------------------------------

\* str.startswith
StartsWith(t, p) ==
    /\ Len(t) >= Len(p)
    /\ \A i \in 1..Len(p) : t[i] = p[i]

\* str.replace(pat, rep): leftmost, non-overlapping occurrences
RECURSIVE Replace(_, _, _)
Replace(t, pat, rep) ==
    IF Len(t) < Len(pat) THEN t
    ELSE IF StartsWith(t, pat)
         THEN rep \o Replace(SubSeq(t, Len(pat) + 1, Len(t)), pat, rep)
         ELSE <<Head(t)>> \o Replace(Tail(t), pat, rep)

\* str.lstrip / str.rstrip / str.strip (whitespace)
RECURSIVE LStrip(_)
LStrip(t) ==
    IF t # <<>> /\ Head(t) \in Whitespace THEN LStrip(Tail(t)) ELSE t

RECURSIVE RStrip(_)
RStrip(t) ==
    IF t # <<>> /\ t[Len(t)] \in Whitespace
    THEN RStrip(SubSeq(t, 1, Len(t) - 1)) ELSE t

Strip(t) == RStrip(LStrip(t))

\* index of the first occurrence of character c in t, 0 if there is none
FirstIndex(t, c) ==
    IF \E i \in 1..Len(t) : t[i] = c
    THEN CHOOSE i \in 1..Len(t) : t[i] = c /\ \A j \in 1..(i - 1) : t[j] # c
    ELSE 0

\* str.split(c): the pieces between the occurrences of c (always >= 1 piece)
RECURSIVE Split(_, _)
Split(t, c) ==
    LET i == FirstIndex(t, c)
    IN IF i = 0 THEN <<t>>
       ELSE <<SubSeq(t, 1, i - 1)>> \o Split(SubSeq(t, i + 1, Len(t)), c)

\* str.split(c)[0]
SplitHead(t, c) == Split(t, c)[1]

\* str.split(c, 1)[-1]: what follows the first c, the whole text if no c
SplitOnceLast(t, c) ==
    LET i == FirstIndex(t, c)
    IN IF i = 0 THEN t ELSE SubSeq(t, i + 1, Len(t))

\* sep.join(parts)
RECURSIVE Join(_, _)
Join(parts, sep) ==
    IF parts = <<>> THEN <<>>
    ELSE IF Len(parts) = 1 THEN parts[1]
    ELSE parts[1] \o sep \o Join(Tail(parts), sep)

\* ''.join(parts)
Concat(parts) == Join(parts, <<>>)

\* ------------------------------------------------------------------------
\* The section table of display_analysis_results
\* ------------------------------------------------------------------------
NumSections == 5

DefaultTitle == "InformacoesAdicionais"
NoTitle == "none"   \* st.markdown(s) with no '###' heading before it

\* key_prompt -> title_display, in insertion order.  The keys are the
\* prompt's item texts; only their wording is abbreviated here (a capital
\* initial), the leading number, the periods and the spaces are kept.
sections ==
    << [key |-> <<"1", ".", " ", "D", ".">>, title |-> "DescricaoGeral"],
       [key |-> <<"2", ".", " ", "M", ".">>, title |-> "MateriaisEmbalagem"],
       [key |-> <<"3", ".", " ", "E", " ", "(", "C", ")", ".">>,
                                             title |-> "PegadaCarbono"],
       [key |-> <<"4", ".", " ", "I", ".">>, title |-> "DescarteCorreto"],
       [key |-> <<"5", ".", " ", "S", ".">>, title |-> "AlternativasEcologicas"] >>

\* key_prompt.split('.')[0] + '.'
KeyPrefix(key) == SplitHead(key, ".") \o <<".">>

\* the prefix tested for each table entry, in table order
Prefixes == [i \in 1..NumSections |-> KeyPrefix(sections[i].key)]

\* The inner for/break loop: the first table entry whose prefix starts the
\* stripped line, 0 when matched_key stays None.
MatchedKey(line_strip) ==
    LET hits == {i \in 1..NumSections : StartsWith(line_strip, Prefixes[i])}
    IN IF hits = {} THEN 0
       ELSE CHOOSE i \in hits : \A j \in hits : i <= j

\* line_strip.split('.', 1)[-1].strip() if '.' in line_strip else line_strip
LineContent(line_strip) ==
    IF FirstIndex(line_strip, ".") # 0
    THEN Strip(SplitOnceLast(line_strip, "."))
    ELSE line_strip

\* ------------------------------------------------------------------------
\* Normalisation of escaped newlines
\* ------------------------------------------------------------------------
\* s.replace('\\\\n', '\n'): backslash, backslash, n -> line break
ReplaceDoubled(t) == Replace(t, <<BS, BS, "n">>, <<NL>>)

\* s.replace('\\n', '\n'): backslash, n -> line break
ReplaceSingle(t) == Replace(t, <<BS, "n">>, <<NL>>)

\* variant: the two passes in the other order
NormalizeSingleFirst(t) == ReplaceDoubled(ReplaceSingle(t))

Normalize(t) == ReplaceSingle(ReplaceDoubled(t))

\* the text of a rendered body: '\n'.join(current_section_content).strip()
\* (the buffer holds the text together with the line it was read from)
RECURSIVE ItemTexts(_)
ItemTexts(items) ==
    IF items = <<>> THEN <<>>
    ELSE <<Head(items).text>> \o ItemTexts(Tail(items))

BodyOf(items) == Strip(Join(ItemTexts(items), <<NL>>))

\* ------------------------------------------------------------------------
\* The texts the provider may return
\* ------------------------------------------------------------------------
\* short texts, character level: concatenations of at most MaxTok tokens
Palette ==
    { <<"3", ".">>, <<"a">>, <<SP>>, <<NL>>, <<BS, "n">>, <<BS>> }

RECURSIVE TokStrings(_)
TokStrings(n) ==
    IF n = 0 THEN {<<>>}
    ELSE LET P == TokStrings(n - 1)
         IN P \cup {p \o t : p \in P, t \in Palette}

\* line level: at most MaxLines lines joined by real line breaks
LinePalette ==
    { <<"1", ".">>, <<"1", ".", "a">>, <<"2", ".">>, <<"2", ".", SP, "b">>,
      <<"a">>, <<SP, "b", SP>>, <<>> }

LineTexts ==
    UNION { {Join(ls, <<NL>>) : ls \in [1..k -> LinePalette]} : k \in 1..MaxLines }

\* five headings "1." .. "5.", each on its own line, each followed by a body
Bodies ==
    { <<"a">>,
      <<SP, "b", SP, NL, "a", BS, "n", "b">>,
      <<"2", ".", "5", SP, "a">> }

Digit(i) == <<"1", "2", "3", "4", "5">>[i]

FiveSectionText(b) ==
    Join([i \in 1..NumSections |-> <<Digit(i), ".", NL>> \o b[i]], <<NL>>)

FiveSectionTexts == {FiveSectionText(b) : b \in [1..NumSections -> Bodies]}

\* "A\\\\nB\\nC": A, backslash, backslash, n, B, backslash, n, C
ExampleABC == <<"A", BS, BS, "n", "B", BS, "n", "C">>

ProviderTexts ==
    TokStrings(MaxTok) \cup LineTexts \cup FiveSectionTexts \cup {ExampleABC}

\* the parts of an interrupted candidate: some carry text, some do not
PartialTexts == { <<>>, <<"a">>, <<"1", ".", "a", NL>>, <<"3", ".">> }

Parts ==
    {[has_text |-> TRUE, text |-> t] : t \in PartialTexts}
        \cup {[has_text |-> FALSE, text |-> <<>>]}

PartSeqs == {<<>>} \cup {<<p>> : p \in Parts} \cup {<<p, q>> : p \in Parts, q \in Parts}

\* what model.generate_content / response.text may do
Outcomes ==
    {[kind |-> "Success", text |-> t, parts |-> <<>>] : t \in ProviderTexts}
        \cup {[kind |-> "Interrupted", text |-> <<>>, parts |-> ps] : ps \in PartSeqs}
        \cup {[kind |-> "Blocked", text |-> <<>>, parts |-> <<>>],
              [kind |-> "Other", text |-> <<>>, parts |-> <<>>]}

NoOutcome == [kind |-> "NotCalled", text |-> <<>>, parts |-> <<>>]

\* ------------------------------------------------------------------------
\* configure_gemini_api and get_environmental_analysis
\* ------------------------------------------------------------------------
\* os.environ.get('STREAMLIT_GOOGLE_API_KEY'): unset (None), empty, or a key
EnvKeys ==
    { [set |-> FALSE, value |-> <<>>],
      [set |-> TRUE, value |-> <<>>],
      [set |-> TRUE, value |-> <<"k">>] }

\* not api_key
KeyMissing(key) == ~key.set \/ key.value = <<>>

\* variant: only an unset key is rejected (api_key is None)
ConfigureIgnoresEmptyKey(key, raises) ==
    IF ~key.set THEN FALSE ELSE ~raises

\* the value configure_gemini_api returns; raises: genai.configure threw
ConfigureGeminiApi(key, raises) ==
    IF KeyMissing(key) THEN FALSE
    ELSE IF raises THEN FALSE
    ELSE TRUE

\* what configure_gemini_api shows before returning
ConfigureMessages(key, raises) ==
    IF KeyMissing(key) THEN {"key_error", "key_info"}
    ELSE IF raises THEN {"configure_failed_error", "tip_info"}
    ELSE {}

\* Optional[str]
None == [some |-> FALSE, text |-> <<>>]
Some(t) == [some |-> TRUE, text |-> t]

\* 'A geracao da resposta foi interrompida pela API.' (wording abbreviated)
InterruptedNotice == <<"A", SP, "g", ".">>

\* ''.join(part.text for part in parts if hasattr(part, 'text'))
RECURSIVE PartsText(_)
PartsText(ps) ==
    IF ps = <<>> THEN <<>>
    ELSE (IF Head(ps).has_text THEN Head(ps).text ELSE <<>>) \o PartsText(Tail(ps))

\* uploaded_file.getvalue()
ImageBytes(file) == IF file = "image" THEN <<"i">> ELSE <<>>

\* variant: every provider error returns the interruption notice
NoticeOnEveryError(image_bytes, outcome) ==
    IF image_bytes = <<>> THEN None
    ELSE IF outcome.kind = "Success" THEN Some(outcome.text)
    ELSE IF outcome.kind = "Interrupted" /\ outcome.parts # <<>>
         THEN Some(PartsText(outcome.parts))
    ELSE Some(InterruptedNotice)

\* the value get_environmental_analysis returns
GetEnvironmentalAnalysis(image_bytes, outcome) ==
    IF image_bytes = <<>> THEN None
    ELSE IF outcome.kind = "Success" THEN Some(outcome.text)
    ELSE IF outcome.kind = "Blocked" THEN None
    ELSE IF outcome.kind = "Interrupted"
         THEN IF outcome.parts # <<>>
              THEN Some(PartsText(outcome.parts))
              ELSE Some(InterruptedNotice)
    ELSE None

\* what get_environmental_analysis shows (st.warning / handle_error)
AnalysisMessages(image_bytes, outcome) ==
    IF image_bytes = <<>> THEN {"send_image_warning"}
    ELSE IF outcome.kind = "Success" THEN {}
    ELSE IF outcome.kind = "Blocked" THEN {"blocked_error", "tip_info"}
    ELSE IF outcome.kind = "Interrupted" THEN {"interrupted_error", "tip_info"}
    ELSE {"provider_error", "tip_info"}

\* Python truthiness of an Optional[str]: None and '' are falsy
Truthy(result) == result.some /\ result.text # <<>>

\* not analysis_text or not analysis_text.strip()
IsBlank(t) == t = <<>> \/ Strip(t) = <<>>

\* ------------------------------------------------------------------------
\* State
\* ------------------------------------------------------------------------
VARIABLES
    pc,                       \* position of the script run
    api_key,                  \* the process environment's credential
    messages,                 \* banners shown (st.error/warning/info/markdown)
    widgets_offered,          \* the uploader has been offered
    button_offered,           \* the analyse button has been offered
    uploaded_file,            \* "none", "empty" or "image"
    provider_called,          \* generate_content has been called
    outcome,                  \* what the provider did
    analysis_result,          \* get_environmental_analysis's return value
    sectioner_called,         \* display_analysis_results has been entered
    analysis_text,            \* display_analysis_results's argument
    s,                        \* the normalised text
    lines,                    \* s.split('\n')
    idx,                      \* position of the for loop in lines
    current_section_content,  \* the buffer: <<[line, text], ...>>
    current_section_title,
    current_section_head,     \* the line that set current_section_title, 0 at start
    found_section,
    rendered                  \* the sections rendered, in order

vars ==
    << pc, api_key, messages, widgets_offered, button_offered, uploaded_file,
       provider_called, outcome, analysis_result, sectioner_called,
       analysis_text, s, lines, idx, current_section_content,
       current_section_title, current_section_head, found_section, rendered >>

mainVars ==
    << api_key, widgets_offered, button_offered, uploaded_file,
       provider_called, outcome, analysis_result >>

sectionerVars ==
    << analysis_text, s, lines, idx, current_section_content,
       current_section_title, current_section_head, found_section, rendered >>

Init ==
    /\ pc = "start"
    /\ api_key \in EnvKeys
    /\ messages = {}
    /\ widgets_offered = FALSE
    /\ button_offered = FALSE
    /\ uploaded_file = "none"
    /\ provider_called = FALSE
    /\ outcome = NoOutcome
    /\ analysis_result = None
    /\ sectioner_called = FALSE
    /\ analysis_text = <<>>
    /\ s = <<>>
    /\ lines = <<>>
    /\ idx = 0
    /\ current_section_content = <<>>
    /\ current_section_title = DefaultTitle
    /\ current_section_head = 0
    /\ found_section = FALSE
    /\ rendered = <<>>

\* ------------------------------------------------------------------------
\* main
\* ------------------------------------------------------------------------
\* setup_page(); if not configure_gemini_api(): ...; st.stop()
Configure ==
    /\ pc = "start"
    /\ \E raises \in BOOLEAN :
         IF ConfigureGeminiApi(api_key, raises)
         THEN /\ pc' = "configured"
              /\ messages' = messages \cup ConfigureMessages(api_key, raises)
         ELSE /\ pc' = "stopped"
              /\ messages' = messages \cup ConfigureMessages(api_key, raises)
                                      \cup {"limited_mode"}
    /\ UNCHANGED <<mainVars, sectioner_called, sectionerVars>>

\* uploaded_file = display_initial_interface() and the branch on it
DisplayInitialInterface ==
    /\ pc = "configured"
    /\ widgets_offered' = TRUE
    /\ \E file \in {"none", "empty", "image"} :
         /\ uploaded_file' = file
         /\ IF file = "none"
            THEN /\ pc' = "welcome"
                 /\ button_offered' = FALSE
                 /\ messages' = messages \cup {"steps_info", "ready_success"}
            ELSE /\ pc' = "uploaded"
                 /\ button_offered' = TRUE
                 /\ messages' = messages
                       \cup (IF KeyMissing(api_key) THEN {"api_key_warning"} ELSE {})
    /\ UNCHANGED <<api_key, provider_called, outcome, analysis_result,
                   sectioner_called, sectionerVars>>

\* the button is pressed: analysis_result = get_environmental_analysis(...)
ClickAnalyze ==
    /\ pc = "uploaded"
    /\ LET image_bytes == ImageBytes(uploaded_file)
       IN IF image_bytes = <<>>
          THEN /\ analysis_result' = GetEnvironmentalAnalysis(image_bytes, NoOutcome)
               /\ messages' = messages \cup AnalysisMessages(image_bytes, NoOutcome)
               /\ UNCHANGED <<provider_called, outcome>>
          ELSE \E o \in Outcomes :
               /\ provider_called' = TRUE
               /\ outcome' = o
               /\ analysis_result' = GetEnvironmentalAnalysis(image_bytes, o)
               /\ messages' = messages \cup AnalysisMessages(image_bytes, o)
    /\ pc' = "got_result"
    /\ UNCHANGED <<api_key, widgets_offered, button_offered, uploaded_file,
                   sectioner_called, sectionerVars>>

\* if analysis_result: display_analysis_results(...) else: st.info(...)
Dispatch ==
    /\ pc = "got_result"
    /\ IF Truthy(analysis_result)
       THEN /\ pc' = "display"
            /\ sectioner_called' = TRUE
            /\ analysis_text' = analysis_result.text
            /\ UNCHANGED messages
       ELSE /\ pc' = "done"
            /\ messages' = messages \cup {"no_analysis_info"}
            /\ UNCHANGED <<sectioner_called, analysis_text>>
    /\ UNCHANGED <<mainVars, s, lines, idx, current_section_content,
                   current_section_title, current_section_head, found_section,
                   rendered>>

\* ------------------------------------------------------------------------
\* display_analysis_results
\* ------------------------------------------------------------------------
Item(i, t) == [line |-> i, text |-> t]

\* one rendered section: st.markdown('### title'); st.markdown(body)
Section(title, head, items) ==
    [title |-> title, body |-> BodyOf(items), head |-> head, items |-> items]

\* variant: the line is used as read
NotStripped(line) == line

\* line_strip = line.strip()
StrippedLine(line) == Strip(line)

\* variant: a flush that does not test the buffer
FlushAlways(content) == TRUE

\* if current_section_content:
FlushNeeded(content) == content # <<>>

\* variant: the buffer is not cleared by a flush
KeepBuffer(content) == content

\* current_section_content = []
BufferAfterFlush(content) == <<>>

\* variant: the title is assigned before the flush renders it
TitleAssignedBeforeFlush(current_title, matched_title) == matched_title

\* the title a flush renders: current_section_title is read before it is
\* assigned the matched entry's title
FlushedTitle(current_title, matched_title) == current_title

\* variant: sections kept per title, a repeated title extends its section
RenderSectionKeyedByTitle(out, title, head, items) ==
    IF \E j \in 1..Len(out) : out[j].title = title
    THEN LET j == CHOOSE k \in 1..Len(out) : out[k].title = title
         IN [out EXCEPT ![j] = Section(title, out[j].head, out[j].items \o items)]
    ELSE Append(out, Section(title, head, items))

\* the two st.markdown calls of a flush
RenderSection(out, title, head, items) ==
    Append(out, Section(title, head, items))

\* the early return on blank text, else normalisation and split
DisplayEnter ==
    /\ pc = "display"
    /\ IF IsBlank(analysis_text)
       THEN /\ messages' = messages \cup {"no_content_warning"}
            /\ pc' = "done"
            /\ UNCHANGED <<s, lines, idx>>
       ELSE /\ s' = Normalize(analysis_text)
            /\ lines' = Split(s', NL)
            /\ idx' = 1
            /\ pc' = "loop"
            /\ UNCHANGED messages
    /\ UNCHANGED <<mainVars, sectioner_called, analysis_text,
                   current_section_content, current_section_title,
                   current_section_head, found_section, rendered>>

\* one iteration of "for line in lines"
LoopStep ==
    /\ pc = "loop"
    /\ idx <= Len(lines)
    /\ LET line_strip == StrippedLine(lines[idx])
           m == MatchedKey(line_strip)
       IN IF line_strip = <<>>
          THEN UNCHANGED <<current_section_content, current_section_title,
                           current_section_head, found_section, rendered>>
          ELSE IF m # 0
          THEN LET flush == FlushNeeded(current_section_content)
                   line_content == LineContent(line_strip)
                   buffer == IF flush
                             THEN BufferAfterFlush(current_section_content)
                             ELSE current_section_content
               IN /\ rendered' =
                        IF flush
                        THEN RenderSection(rendered,
                                 FlushedTitle(current_section_title,
                                              sections[m].title),
                                 current_section_head, current_section_content)
                        ELSE rendered
                  /\ current_section_title' = sections[m].title
                  /\ current_section_head' = idx
                  /\ current_section_content' =
                        IF line_content # <<>>
                        THEN Append(buffer, Item(idx, line_content))
                        ELSE buffer
                  /\ found_section' = TRUE
          ELSE /\ current_section_content' =
                     Append(current_section_content, Item(idx, line_strip))
               /\ UNCHANGED <<current_section_title, current_section_head,
                              found_section, rendered>>
    /\ idx' = idx + 1
    /\ UNCHANGED <<pc, messages, mainVars, sectioner_called, analysis_text, s,
                   lines>>

\* after the loop: the last flush, or the unlabelled fallback
Finish ==
    /\ pc = "loop"
    /\ idx > Len(lines)
    /\ rendered' =
         IF FlushNeeded(current_section_content)
         THEN RenderSection(rendered, current_section_title,
                            current_section_head, current_section_content)
         ELSE IF ~found_section /\ Strip(analysis_text) # <<>>
         THEN Append(rendered,
                     [title |-> NoTitle, body |-> s, head |-> 0, items |-> <<>>])
         ELSE rendered
    /\ pc' = "rendered"
    /\ UNCHANGED <<messages, mainVars, sectioner_called, analysis_text, s,
                   lines, idx, current_section_content, current_section_title,
                   current_section_head, found_section>>

Next ==
    \/ Configure
    \/ DisplayInitialInterface
    \/ ClickAnalyze
    \/ Dispatch
    \/ DisplayEnter
    \/ LoopStep
    \/ Finish

Spec == Init /\ [][Next]_vars

\* ------------------------------------------------------------------------
\* Vocabulary of the properties
\* ------------------------------------------------------------------------
LineIdx == 1..Len(lines)

\* what the loop makes of each line: -1 a blank line (skipped), 0 a line
\* matching no prefix, i > 0 a heading line matching table entry i
LineKinds ==
    [k \in LineIdx |->
        LET line_strip == Strip(lines[k])
        IN IF line_strip = <<>> THEN -1 ELSE MatchedKey(line_strip)]

NonBlankIn(K) == {k \in DOMAIN K : K[k] >= 0}

HeadingsIn(K) == {k \in DOMAIN K : K[k] > 0}

\* the first heading line after line k, Len(lines) + 1 if there is none
NextHeadingIn(K, k) ==
    LET later == {j \in HeadingsIn(K) : j > k}
    IN IF later = {} THEN Len(lines) + 1
       ELSE CHOOSE j \in later : \A h \in later : j <= h

\* heading line k brings content: its own remainder, or a non-blank line
\* between it and the next heading line
HasBodyIn(K, k) ==
    \/ LineContent(Strip(lines[k])) # <<>>
    \/ \E j \in (k + 1)..(NextHeadingIn(K, k) - 1) : K[j] >= 0

\* the heading lines that bring no content
BareHeadingsIn(K) == {k \in HeadingsIn(K) : ~HasBodyIn(K, k)}

\* the lines a rendered section was built from: the heading line that set
\* its title and the lines whose text is in its body
Src(r) ==
    {r.items[j].line : j \in 1..Len(r.items)}
        \cup (IF r.head # 0 THEN {r.head} ELSE {})

\* the rendered blocks that carry a title
Labelled == {j \in 1..Len(rendered) : rendered[j].title # NoTitle}

SectionsOf(k) == {j \in Labelled : k \in Src(rendered[j])}

\* the non-blank lines, each stripped, in order
RECURSIVE StrippedNonBlank(_)
StrippedNonBlank(ls) ==
    IF ls = <<>> THEN <<>>
    ELSE (IF Strip(Head(ls)) # <<>> THEN <<Strip(Head(ls))>> ELSE <<>>)
             \o StrippedNonBlank(Tail(ls))

Count(t, c) == Cardinality({i \in 1..Len(t) : t[i] = c})

\* ------------------------------------------------------------------------
\* C1
\* ------------------------------------------------------------------------
\* C1 (as stated): when the Sectioner has finished, every non-blank line of
\* the normalised text is assigned to exactly one rendered section.
C1_EveryLineInExactlyOneSection ==
    pc = "rendered" =>
        \A k \in NonBlankIn(LineKinds) : Cardinality(SectionsOf(k)) = 1

\* C1 (amended): no non-blank line is in two sections; a non-blank line is in
\* exactly one section unless it is a heading line with nothing after the
\* period that no non-blank line follows before the next heading line or the
\* end of the text, and such a heading line is in no section.
C1_LinesAssignedExceptBareHeadings ==
    pc = "rendered" =>
        LET K == LineKinds
            bare == BareHeadingsIn(K)
        IN \A k \in NonBlankIn(K) :
              /\ Cardinality(SectionsOf(k)) <= 1
              /\ (SectionsOf(k) = {}) <=> (k \in bare)

C1_Witness ==
    /\ pc = "rendered"
    /\ Len(rendered) >= 2
    /\ LET K == LineKinds
       IN /\ \E k \in BareHeadingsIn(K) : SectionsOf(k) = {}
          /\ \E k \in HeadingsIn(K) \ BareHeadingsIn(K) : SectionsOf(k) # {}

\* ------------------------------------------------------------------------
\* C2
\* ------------------------------------------------------------------------
\* line k is the heading "i." on a line of its own
OwnLineHeading(k, i) == Strip(lines[k]) = <<Digit(i), ".">>

OwnHeadings == {k \in LineIdx : \E i \in 1..NumSections : OwnLineHeading(k, i)}

\* headings "1." .. "5." each on its own line, in that order, each followed
\* by one or more body-text lines (non-blank lines that are not such headings)
WellFormedFive ==
    LET own == OwnHeadings
    IN /\ Cardinality(own) = NumSections
       /\ 1 \in own
       /\ \A k \in own :
             /\ OwnLineHeading(k, 1 + Cardinality({j \in own : j < k}))
             /\ k + 1 \in LineIdx \ own
       /\ \A k \in LineIdx \ own : Strip(lines[k]) # <<>>

\* C2: a well-formed five-section input renders exactly five sections, in
\* heading order, labelled by table entries 1..5, whatever the body text is.
C2_FiveSectionsInOrder ==
    (pc = "rendered" /\ WellFormedFive) =>
        /\ Len(rendered) = NumSections
        /\ \A i \in 1..NumSections :
              /\ rendered[i].title = sections[i].title
              /\ OwnLineHeading(rendered[i].head, i)

\* ------------------------------------------------------------------------
\* C3
\* ------------------------------------------------------------------------
\* C3 (as stated): non-blank input with no matching line renders exactly one
\* section, under the default title, whose body is the whole normalised text.
C3_WholeTextUnderDefaultTitle ==
    (pc = "rendered" /\ HeadingsIn(LineKinds) = {}) =>
        /\ Len(rendered) = 1
        /\ rendered[1].title = DefaultTitle
        /\ rendered[1].body = s

\* C3 (amended): such an input renders exactly one block.  If some line is
\* non-blank it is a section under the default title whose body is the
\* non-blank lines, each stripped, joined by line breaks; if every line is
\* blank it is the normalised text itself, rendered with no title.
C3_StrippedLinesUnderDefaultTitle ==
    (pc = "rendered" /\ HeadingsIn(LineKinds) = {}) =>
        /\ Len(rendered) = 1
        /\ IF NonBlankIn(LineKinds) # {}
           THEN /\ rendered[1].title = DefaultTitle
                /\ rendered[1].body = Join(StrippedNonBlank(lines), <<NL>>)
           ELSE /\ rendered[1].title = NoTitle
                /\ rendered[1].body = s

C3_Witness ==
    /\ pc = "rendered"
    /\ HeadingsIn(LineKinds) = {}
    /\ \E k \in LineIdx : LineKinds[k] = -1
    /\ \E k \in LineIdx : LineKinds[k] = 0 /\ Strip(lines[k]) # lines[k]
    /\ Len(rendered) = 1
    /\ rendered[1].title = DefaultTitle
    /\ rendered[1].body # s

\* ------------------------------------------------------------------------
\* C4
\* ------------------------------------------------------------------------
\* C4: when the provider call succeeds with empty or whitespace-only text,
\* the run ends with no section rendered, with the 'no content' message and
\* without the message of a failed analysis.
C4_BlankSuccessReportsNoContent ==
    (pc \in {"done", "rendered"} /\ outcome.kind = "Success"
        /\ IsBlank(outcome.text)) =>
        /\ rendered = <<>>
        /\ "no_content_warning" \in messages
        /\ "no_analysis_info" \notin messages

\* ------------------------------------------------------------------------
\* C5
\* ------------------------------------------------------------------------
\* every backslash of t belongs to a single escape (backslash, n) or to a
\* doubled escape (backslash, backslash, n)
OnlyEscapes(t) ==
    \A i \in 1..Len(t) : t[i] = BS =>
        \/ i + 1 <= Len(t) /\ t[i + 1] = "n"
        \/ /\ i + 2 <= Len(t)
           /\ t[i + 1] = BS
           /\ t[i + 2] = "n"
           /\ (i = 1 \/ t[i - 1] # BS)

\* the escapes of such a text: each ends in one backslash followed by n
NumEscapes(t) ==
    Cardinality({i \in 1..(Len(t) - 1) : t[i] = BS /\ t[i + 1] = "n"})

\* C5: the normalised text is the doubled-escape pass followed by the
\* single-escape pass; A\\nB\nC becomes the three lines A, B, C; no escape is
\* left in the normalised text; and when every backslash of the input
\* belongs to an escape, each escape (doubled ones included) has become
\* exactly one line break and no backslash is left over.
C5_DoubledEscapesFirst ==
    (pc = "loop" /\ idx = 1) =>
        /\ s = ReplaceSingle(ReplaceDoubled(analysis_text))
        /\ analysis_text = ExampleABC => lines = << <<"A">>, <<"B">>, <<"C">> >>
        /\ \A i \in 1..(Len(s) - 1) : ~(s[i] = BS /\ s[i + 1] = "n")
        /\ OnlyEscapes(analysis_text) =>
              /\ Count(s, BS) = 0
              /\ Count(s, NL) = Count(analysis_text, NL) + NumEscapes(analysis_text)
              /\ Len(lines) = Count(s, NL) + 1

C5_Witness ==
    /\ pc = "loop"
    /\ idx = 1
    /\ analysis_text = ExampleABC
    /\ lines = << <<"A">>, <<"B">>, <<"C">> >>

\* ------------------------------------------------------------------------
\* C6
\* ------------------------------------------------------------------------
\* C6: with the credential absent or empty the run shows the key error and
\* the limited-mode notice and stops; the uploader and the button are never
\* offered and neither the provider nor the Sectioner is ever called.
C6_DisabledWithoutCredential ==
    KeyMissing(api_key) =>
        /\ pc \in {"start", "stopped"}
        /\ pc = "stopped" => {"key_error", "limited_mode"} \subseteq messages
        /\ ~widgets_offered
        /\ ~button_offered
        /\ ~provider_called
        /\ ~sectioner_called
        /\ rendered = <<>>

C6_Witness ==
    /\ pc = "stopped"
    /\ api_key.set
    /\ api_key.value = <<>>
    /\ "limited_mode" \in messages

\* ------------------------------------------------------------------------
\* C7
\* ------------------------------------------------------------------------
\* C7 (as stated): the Sectioner is entered only with the provider's success
\* text or with the partial text of an interrupted generation, never after a
\* blocked or failed call and never with text the provider did not produce.
C7_OnlyProviderText ==
    /\ outcome.kind \in {"Blocked", "Other", "NotCalled"} => ~sectioner_called
    /\ sectioner_called =>
          \/ outcome.kind = "Success" /\ analysis_text = outcome.text
          \/ /\ outcome.kind = "Interrupted"
             /\ outcome.parts # <<>>
             /\ analysis_text = PartsText(outcome.parts)

\* C7 (amended): as stated, except that on an interrupted generation with no
\* partial text the Sectioner is entered with the application's own fixed
\* interruption notice.
C7_ProviderTextOrNotice ==
    /\ outcome.kind \in {"Blocked", "Other", "NotCalled"} => ~sectioner_called
    /\ sectioner_called =>
          \/ outcome.kind = "Success" /\ analysis_text = outcome.text
          \/ /\ outcome.kind = "Interrupted"
             /\ outcome.parts # <<>>
             /\ analysis_text = PartsText(outcome.parts)
          \/ /\ outcome.kind = "Interrupted"
             /\ outcome.parts = <<>>
             /\ analysis_text = InterruptedNotice

C7_Witness ==
    /\ pc = "rendered"
    /\ outcome.kind = "Interrupted"
    /\ outcome.parts = <<>>
    /\ analysis_text = InterruptedNotice
    /\ Len(rendered) = 1

\* ------------------------------------------------------------------------
\* C8
\* ------------------------------------------------------------------------
\* C8: the rendered sections follow the order of their heading lines, each
\* under the title of the table entry its heading line matches; the section
\* under the default title can only be the first one rendered; and once the
\* Sectioner has finished it has been rendered if and only if a non-blank
\* line precedes the first heading line (every non-blank line does when the
\* text has no heading line).
C8_HeadingOrderAndCatchAllFirst ==
    (Labelled # {} \/ pc = "rendered") =>
        LET K == LineKinds
        IN /\ \A i \in Labelled : \A j \in Labelled :
                 i < j => rendered[i].head < rendered[j].head
           /\ \A j \in Labelled :
                 IF rendered[j].head = 0
                 THEN rendered[j].title = DefaultTitle /\ j = 1
                 ELSE /\ rendered[j].head \in HeadingsIn(K)
                      /\ rendered[j].title = sections[K[rendered[j].head]].title
           /\ pc = "rendered" =>
                 ((\E j \in Labelled : rendered[j].title = DefaultTitle)
                     <=> (\E k \in 1..(NextHeadingIn(K, 0) - 1) : K[k] >= 0))

C8_Witness ==
    /\ pc = "rendered"
    /\ Len(rendered) >= 3
    /\ rendered[1].title = DefaultTitle
    /\ rendered[2].title # rendered[3].title

\* ------------------------------------------------------------------------
\* C9
\* ------------------------------------------------------------------------
\* C9: when two heading lines match the same prefix, no rendered section
\* holds lines from both sides of the second one, and if both bring content
\* they are rendered as two sections with the same title, the first holding
\* only lines before the second heading line.
C9_SamePrefixTwiceNotMerged ==
    pc = "rendered" =>
        LET K == LineKinds
            H == HeadingsIn(K)
            bare == BareHeadingsIn(K)
        IN \A i \in H : \A j \in H :
              (i < j /\ K[i] = K[j]) =>
                  /\ \A r \in Labelled :
                        ~(\E a \in Src(rendered[r]) : \E b \in Src(rendered[r]) :
                              a < j /\ b >= j)
                  /\ (i \notin bare /\ j \notin bare) =>
                        \E p \in Labelled : \E q \in Labelled :
                            /\ p < q
                            /\ rendered[p].head = i
                            /\ rendered[q].head = j
                            /\ rendered[p].title = rendered[q].title
                            /\ rendered[p].title = sections[K[i]].title

C9_Witness ==
    /\ pc = "rendered"
    /\ Len(rendered) = 2
    /\ rendered[1].title = rendered[2].title
    /\ rendered[1].title = "DescricaoGeral"
    /\ rendered[1].body # <<>>
    /\ rendered[2].body # <<>>

\* ------------------------------------------------------------------------
\* C10
\* ------------------------------------------------------------------------
\* C10: every titled section rendered has a non-empty body; there are never
\* more rendered sections than heading lines read plus one; and a heading
\* line that brings no content has no rendered section.
C10_NoEmptySection ==
    rendered # <<>> =>
        LET K == LineKinds
        IN /\ \A j \in Labelled :
                 /\ rendered[j].items # <<>>
                 /\ Strip(rendered[j].body) # <<>>
           /\ Len(rendered) <= Cardinality({k \in HeadingsIn(K) : k < idx}) + 1
           /\ pc = "rendered" =>
                 \A k \in BareHeadingsIn(K) :
                     ~(\E j \in Labelled : rendered[j].head = k)

C10_Witness ==
    /\ pc = "rendered"
    /\ rendered # <<>>
    /\ LET K == LineKinds
       IN /\ \E k \in BareHeadingsIn(K) :
                 /\ k + 1 \in HeadingsIn(K)
                 /\ ~(\E j \in Labelled : rendered[j].head = k)
          /\ Len(lines) \in BareHeadingsIn(K)

====
